---------------------------- MODULE Spec2Model ----------------------------
(***************************************************************************)
(* UKHASnet-decoder.c as a state machine.                                  *)
(*                                                                         *)
(* The program's globals are the variables; processBit / processByte and   *)
(* the steps of main() are the actions.  The decoder is driven either bit  *)
(* by bit (the variable bits holds the bits still to be passed to          *)
(* processBit) or through main(), from the bytes of stdin.                 *)
(***************************************************************************)
EXTENDS Integers, Sequences, FiniteSets, TLC

VARIABLES
    \* ---- globals of UKHASnet-decoder.c
    syncBuffer,     \* uint16_t syncBuffer
    verbose,        \* bool verbose
    sampleRate,     \* uint16_t sampleRate
    byte,           \* uint8_t byte
    buffer,         \* uint8_t buffer[MAX_PACKET_SIZE]: index |-> byte, where written
    threshold,      \* int16_t threshold
    packetSync,     \* bool packetSync
    len,            \* int len
    offset,         \* int offset
    computedCrc,    \* uint16_t computedCrc
    readCrc,        \* uint16_t readCrc
    skipBit,        \* int skipBit
    \* ---- what the program wrote
    packets,        \* the payloads of the "PACKET ..." lines, in order
    diag,           \* the verbose diagnostics, in order
    \* ---- main(): its locals, its position, its input
    pc,             \* "getopt" | "loop" | "done" | "exit"
    argv,           \* the options getopt has still to return
    stdin,          \* the bytes of standard input not read yet
    pos,            \* how many bytes fgetc has returned
    eof,            \* the end-of-file indicator of stdin (feof)
    downSamples,    \* int downSamples
    skipSamples,    \* int skipSamples
    samples,        \* int32_t samples
    sample,         \* int16_t sample, the last one read
    summary,        \* the sample count printed by the last printf, -1 before
    exitCode,       \* the value main returned, -1 while running
    evalOrder,      \* which fgetc of line 214 the build evaluates first
    \* ---- the bit-level driver
    bits,           \* the bits still to be passed to processBit
    scn,            \* the input this run was started with
    \* ---- history
    sinceLock,      \* bits processed since the last sync match
    packetsAtLock,  \* Len(packets) at the last sync match
    delivered,      \* the bytes passed to processByte since the last sync match
    recent,         \* the last bits passed to processBit, at most 8, oldest first
    freshReg,       \* a sync register that is cleared on each return to Searching
    trace,          \* the decoder states of a first run, kept for a second one
    nIter,          \* iterations of main's sample loop
    nBit            \* calls of processBit made by main's sample loop

decVars  == <<syncBuffer, byte, buffer, packetSync, len, offset,
              computedCrc, readCrc, skipBit>>
outVars  == <<packets, diag>>
lockVars == <<sinceLock, packetsAtLock, delivered, recent, freshReg>>
mainVars == <<sampleRate, threshold, pc, argv, stdin, pos, eof, downSamples,
              skipSamples, samples, sample, summary, exitCode, evalOrder, nIter, nBit>>
vars == <<decVars, outVars, lockVars, mainVars, verbose, bits, scn, trace>>

-----------------------------------------------------------------------------
(* Program constants *)

BIT_RATE == 2000
CRC_START == 7439            \* 0x1D0F
MAX_PACKET_SIZE == 255
SYNC_WORD == 11690           \* 0x2DAA
CRC_POLY == 4129             \* 0x1021
DEFAULT_SAMPLE_RATE == 64000

-----------------------------------------------------------------------------
(* C integer arithmetic *)

RECURSIVE BitXor(_, _)
BitXor(a, b) ==
    IF a = 0 THEN b
    ELSE IF b = 0 THEN a
    ELSE (((a % 2) + (b % 2)) % 2) + 2 * BitXor(a \div 2, b \div 2)

RECURSIVE BitOr(_, _)
BitOr(a, b) ==
    IF a = 0 THEN b
    ELSE IF b = 0 THEN a
    ELSE (IF (a % 2) = 1 \/ (b % 2) = 1 THEN 1 ELSE 0) + 2 * BitOr(a \div 2, b \div 2)

ToU8(x)  == x % 256
ToU16(x) == x % 65536
ToI16(x) == LET m == x % 65536 IN IF m >= 32768 THEN m - 65536 ELSE m

\* a quotient rounded down instead of toward zero
TruncDiv_floor(n, d) == n \div d

\* C's / : the quotient truncated toward zero (d > 0)
TruncDiv(n, d) == IF n >= 0 THEN n \div d ELSE -((-n) \div d)

-----------------------------------------------------------------------------
(* crc_xmodem_update *)

RECURSIVE CrcLoop(_, _)
CrcLoop(crc, i) ==
    IF i >= 8 THEN crc
    ELSE CrcLoop(IF crc >= 32768
                    THEN ToU16(BitXor(crc * 2, CRC_POLY))
                    ELSE ToU16(crc * 2),
                 i + 1)

\* a CRC whose loop stops one bit early: the low bit of data is not mixed in
crc_xmodem_update_short(crc, data) ==
    CrcLoop(ToU16(BitXor(crc, (data - (data % 2)) * 256)), 0)

crc_xmodem_update(crc, data) ==
    CrcLoop(ToU16(BitXor(crc, data * 256)), 0)

-----------------------------------------------------------------------------
(* processByte *)

\* line 88: if (len <= MAX_PACKET_SIZE - 1)
LengthOk_accept255(l) == l <= MAX_PACKET_SIZE

LengthOk(l) == l <= MAX_PACKET_SIZE - 1

\* line 120: readCrc = 0xffff - readCrc
InvertCrc_none(rc) == rc

InvertCrc(rc) == 65535 - rc

\* line 105 with the index incremented before the store: buffer[++offset]
BufWrite_next(buf, i, b) == ((i + 1) :> b) @@ buf

\* buffer[i]: the array is zero-initialised (a global), and buffer holds the
\* elements written so far
BufAt(buf, i) == IF i \in DOMAIN buf THEN buf[i] ELSE 0

\* line 105: buffer[offset] = byte
BufWrite(buf, i, b) == (i :> b) @@ buf

\* the bytes putchar writes: buffer[0 .. len-1]
Payload(buf, l) == [i \in 1..l |-> BufAt(buf, i - 1)]

Say(tag) == diag' = IF verbose THEN Append(diag, tag) ELSE diag

\* processByte returning true after the second CRC byte as well
ProcessByteRet_stay(b) ==
    IF len = -1 THEN LengthOk(b) ELSE TRUE

\* processByte with the "return true" of line 92 inside the if (verbose) of
\* lines 89-91
ProcessByteRet_verboseOnly(b) ==
    IF len = -1 THEN LengthOk(b) /\ verbose
    ELSE IF offset < len THEN TRUE
    ELSE IF offset = len THEN TRUE
    ELSE FALSE

\* the value processByte(b) returns in the current state
ProcessByteRet(b) ==
    IF len = -1 THEN LengthOk(b)
    ELSE IF offset < len THEN TRUE
    ELSE IF offset = len THEN TRUE
    ELSE FALSE

\* processByte with the first CRC byte mixed into the running CRC as well
ProcessByte_crcOverCrc(b) ==
    IF len = -1 THEN
        /\ len' = b
        /\ computedCrc' = crc_xmodem_update(computedCrc, b)
        /\ Say(IF LengthOk(b) THEN "Parsing" ELSE "Length")
        /\ UNCHANGED <<offset, buffer, readCrc, packets>>
    ELSE IF offset < len THEN
        /\ buffer' = BufWrite(buffer, offset, b)
        /\ offset' = offset + 1
        /\ computedCrc' = crc_xmodem_update(computedCrc, b)
        /\ UNCHANGED <<len, readCrc, packets, diag>>
    ELSE IF offset = len THEN
        /\ readCrc' = BitOr(readCrc, b * 256)
        /\ offset' = offset + 1
        /\ computedCrc' = crc_xmodem_update(computedCrc, b)
        /\ UNCHANGED <<len, buffer, packets, diag>>
    ELSE IF offset = len + 1 THEN
        /\ readCrc' = InvertCrc(BitOr(readCrc, b))
        /\ IF computedCrc = readCrc'
              THEN /\ packets' = Append(packets, Payload(buffer, len))
                   /\ UNCHANGED diag
              ELSE /\ Say("CRC mismatch")
                   /\ UNCHANGED packets
        /\ UNCHANGED <<len, offset, buffer, computedCrc>>
    ELSE
        UNCHANGED <<len, offset, buffer, computedCrc, readCrc, packets, diag>>

\* the effect of processByte(b) on the globals and the output
ProcessByte(b) ==
    IF len = -1 THEN
        /\ len' = b
        /\ computedCrc' = crc_xmodem_update(computedCrc, b)
        /\ Say(IF LengthOk(b) THEN "Parsing" ELSE "Length")
        /\ UNCHANGED <<offset, buffer, readCrc, packets>>
    ELSE IF offset < len THEN
        /\ buffer' = BufWrite(buffer, offset, b)
        /\ offset' = offset + 1
        /\ computedCrc' = crc_xmodem_update(computedCrc, b)
        /\ UNCHANGED <<len, readCrc, packets, diag>>
    ELSE IF offset = len THEN
        /\ readCrc' = BitOr(readCrc, b * 256)
        /\ offset' = offset + 1
        /\ UNCHANGED <<len, buffer, computedCrc, packets, diag>>
    ELSE IF offset = len + 1 THEN
        /\ readCrc' = InvertCrc(BitOr(readCrc, b))
        /\ IF computedCrc = readCrc'
              THEN /\ packets' = Append(packets, Payload(buffer, len))
                   /\ UNCHANGED diag
              ELSE /\ Say("CRC mismatch")
                   /\ UNCHANGED packets
        /\ UNCHANGED <<len, offset, buffer, computedCrc>>
    ELSE
        UNCHANGED <<len, offset, buffer, computedCrc, readCrc, packets, diag>>

-----------------------------------------------------------------------------
(* processBit *)

\* line 143 on an accumulator wider than 8 bits
ShiftByte_wide(b, bit) == BitOr(b * 2, bit)

\* line 143: byte = (byte << 1) | bit
ShiftByte(b, bit) == ToU8(BitOr(b * 2, bit))

\* line 151 on a register wider than 16 bits (31 here)
ShiftSync_wide(sb, bit) == BitOr((sb % 1073741824) * 2, bit)

\* line 151: syncBuffer = (syncBuffer << 1) | bit
ShiftSync(sb, bit) == ToU16(BitOr(sb * 2, bit))

\* line 152: without the inverted word
SyncMatch_plain(sb) == sb = SYNC_WORD

SyncMatch(sb) == sb = SYNC_WORD \/ sb = 65535 - SYNC_WORD

\* the history recent after one more bit
Latest(r, bit) ==
    LET a == Append(r, bit) IN
    IF Len(a) > 8 THEN Tail(a) ELSE a

\* lines 141-149 with the sync register shifted while packetSync is set too
LockedBit_shifting(bit) ==
    LET nb == ShiftByte(byte, bit) IN
    /\ byte' = nb
    /\ syncBuffer' = ShiftSync(syncBuffer, bit)
    /\ sinceLock' = sinceLock + 1
    /\ recent' = Latest(recent, bit)
    /\ IF skipBit - 1 < 1
          THEN /\ skipBit' = 8
               /\ packetSync' = ProcessByteRet(nb)
               /\ ProcessByte(nb)
               /\ delivered' = Append(delivered, nb)
               /\ freshReg' = IF packetSync' THEN freshReg ELSE 0
          ELSE /\ skipBit' = skipBit - 1
               /\ UNCHANGED <<packetSync, len, offset, buffer, computedCrc,
                              readCrc, packets, diag, delivered, freshReg>>
    /\ UNCHANGED packetsAtLock

\* lines 141-149: packetSync is set
LockedBit(bit) ==
    LET nb == ShiftByte(byte, bit) IN
    /\ byte' = nb
    /\ sinceLock' = sinceLock + 1
    /\ recent' = Latest(recent, bit)
    /\ IF skipBit - 1 < 1
          THEN /\ skipBit' = 8
               /\ packetSync' = ProcessByteRet(nb)
               /\ ProcessByte(nb)
               /\ delivered' = Append(delivered, nb)
               /\ freshReg' = IF packetSync' THEN freshReg ELSE 0
          ELSE /\ skipBit' = skipBit - 1
               /\ UNCHANGED <<packetSync, len, offset, buffer, computedCrc,
                              readCrc, packets, diag, delivered, freshReg>>
    /\ UNCHANGED <<syncBuffer, packetsAtLock>>

\* lines 150-168, with the reset of readCrc left out
SearchingBit_staleReadCrc(bit) ==
    LET sb == ShiftSync(syncBuffer, bit) IN
    /\ syncBuffer' = sb
    /\ packetSync' = SyncMatch(sb)
    /\ IF SyncMatch(sb)
          THEN /\ Say("Sync")
               /\ skipBit' = 8
               /\ len' = -1
               /\ offset' = 0
               /\ computedCrc' = CRC_START
               /\ sinceLock' = 0
               /\ packetsAtLock' = Len(packets)
               /\ delivered' = <<>>
               /\ UNCHANGED readCrc
          ELSE UNCHANGED <<skipBit, len, offset, computedCrc, readCrc, diag,
                           sinceLock, packetsAtLock, delivered>>
    /\ recent' = Latest(recent, bit)
    /\ freshReg' = ShiftSync(freshReg, bit)
    /\ UNCHANGED <<byte, buffer, packets>>

\* lines 150-168: packetSync is clear
SearchingBit(bit) ==
    LET sb == ShiftSync(syncBuffer, bit) IN
    /\ syncBuffer' = sb
    /\ packetSync' = SyncMatch(sb)
    /\ IF SyncMatch(sb)
          THEN /\ Say("Sync")
               /\ skipBit' = 8
               /\ len' = -1
               /\ offset' = 0
               /\ computedCrc' = CRC_START
               /\ readCrc' = 0
               /\ sinceLock' = 0
               /\ packetsAtLock' = Len(packets)
               /\ delivered' = <<>>
          ELSE UNCHANGED <<skipBit, len, offset, computedCrc, readCrc, diag,
                           sinceLock, packetsAtLock, delivered>>
    /\ recent' = Latest(recent, bit)
    /\ freshReg' = ShiftSync(freshReg, bit)
    /\ UNCHANGED <<byte, buffer, packets>>

ProcessBit(bit) ==
    IF packetSync THEN LockedBit(bit) ELSE SearchingBit(bit)

-----------------------------------------------------------------------------
(* main *)

EOF == -1

\* line 179: if (sampleRate < 2 * BIT_RATE || sampleRate % BIT_RATE != 0)
IllegalRate(r) == r < 2 * BIT_RATE \/ (r % BIT_RATE) # 0

\* lines 175-200: one turn of the getopt loop.  An option is [opt, arg]; arg is
\* what atoi(optarg) returns.
GetOpt ==
    /\ pc = "getopt"
    /\ argv # <<>>
    /\ LET o == Head(argv) IN
       /\ argv' = Tail(argv)
       /\ IF o.opt = "s" THEN
             /\ sampleRate' = ToU16(o.arg)
             /\ IF IllegalRate(sampleRate')
                   THEN pc' = "exit" /\ exitCode' = 1
                   ELSE UNCHANGED <<pc, exitCode>>
             /\ UNCHANGED verbose
          ELSE IF o.opt = "v" THEN
             /\ verbose' = TRUE
             /\ UNCHANGED <<sampleRate, pc, exitCode>>
          ELSE
             /\ pc' = "exit"
             /\ exitCode' = 0
             /\ UNCHANGED <<sampleRate, verbose>>
    /\ UNCHANGED <<decVars, outVars, lockVars, threshold, stdin, pos, eof,
                   downSamples, skipSamples, samples, sample, summary,
                   evalOrder, nIter, nBit, bits, scn, trace>>

\* lines 201-211: getopt returned -1
StartLoop ==
    /\ pc = "getopt"
    /\ argv = <<>>
    /\ samples' = 0
    /\ downSamples' = sampleRate \div BIT_RATE
    /\ skipSamples' = downSamples'
    /\ pc' = "loop"
    /\ UNCHANGED <<decVars, outVars, lockVars, sampleRate, threshold, argv,
                   stdin, pos, eof, sample, summary, exitCode, evalOrder,
                   nIter, nBit, verbose, bits, scn, trace>>

\* fgetc on a stream with the bytes in still to come
Fgetc(in) == IF in # <<>> THEN Head(in) ELSE EOF

\* the stream after that fgetc
Rest(in) == IF in # <<>> THEN Tail(in) ELSE in

\* x << 8 in int.  x is a byte, or EOF: shifting a negative value is undefined
\* in C; the compilers this program is built with shift the two's complement
\* representation.
Shl8(x) == x * 256

\* line 214: (int16_t) (lo | hi << 8)
MakeSample(lo, hi) == ToI16(BitOr(ToU16(lo), ToU16(Shl8(hi))))

\* line 219
NewThreshold(s, t, d) == ToI16(TruncDiv(s + (8 * d - 1) * t, 8 * d))

\* line 225 with >= for > : a sample equal to the threshold is a one
Slice_ge(s, t) == IF s >= t THEN 1 ELSE 0

\* line 225: bool bit = sample > threshold
Slice(s, t) == IF s > t THEN 1 ELSE 0

\* lines 212-232: one turn of the sample loop.  The two fgetc calls of line 214
\* are unsequenced: evalOrder says which operand of | is evaluated first.
LoopStep ==
    /\ pc = "loop"
    /\ ~eof
    /\ LET first  == Fgetc(stdin)
           second == Fgetc(Rest(stdin))
           lo     == IF evalOrder = "lr" THEN first ELSE second
           hi     == IF evalOrder = "lr" THEN second ELSE first
           s      == MakeSample(lo, hi)
           t      == NewThreshold(s, threshold, downSamples)
       IN  /\ stdin' = Rest(Rest(stdin))
           /\ pos' = pos + Len(stdin) - Len(stdin')
           /\ eof' = (first = EOF \/ second = EOF)
           /\ sample' = s
           /\ threshold' = t
           /\ nIter' = nIter + 1
           /\ IF skipSamples - 1 < 1
                 THEN /\ skipSamples' = downSamples
                      /\ ProcessBit(Slice(s, t))
                      /\ nBit' = nBit + 1
                 ELSE /\ skipSamples' = skipSamples - 1
                      /\ UNCHANGED <<decVars, outVars, lockVars, nBit>>
    /\ UNCHANGED <<sampleRate, pc, argv, downSamples, samples, summary,
                   exitCode, evalOrder, verbose, bits, scn, trace>>

\* lines 212, 233-234: feof(stdin) is set
LoopExit ==
    /\ pc = "loop"
    /\ eof
    /\ summary' = samples
    /\ exitCode' = 0
    /\ pc' = "done"
    /\ UNCHANGED <<decVars, outVars, lockVars, sampleRate, threshold, argv,
                   stdin, pos, eof, downSamples, skipSamples, samples, sample,
                   evalOrder, nIter, nBit, verbose, bits, scn, trace>>

MainNext == GetOpt \/ StartLoop \/ LoopStep \/ LoopExit

-----------------------------------------------------------------------------
(* The state after the globals' initialisers (lines 29-60, 138) *)

DecInit ==
    /\ syncBuffer = 0
    /\ byte = 0
    /\ buffer = <<>>
    /\ packetSync = FALSE
    /\ len = -1
    /\ offset = 0
    /\ computedCrc = CRC_START
    /\ readCrc = 0
    /\ skipBit = 8
    /\ packets = <<>>
    /\ diag = <<>>
    /\ sinceLock = 0
    /\ packetsAtLock = 0
    /\ delivered = <<>>
    /\ recent = <<>>
    /\ freshReg = 0
    /\ trace = <<>>

\* main() is not running: the decoder is driven bit by bit
MainIdle ==
    /\ sampleRate = DEFAULT_SAMPLE_RATE
    /\ threshold = 0
    /\ pc = "idle"
    /\ argv = <<>>
    /\ stdin = <<>>
    /\ pos = 0
    /\ eof = FALSE
    /\ downSamples = 0
    /\ skipSamples = 0
    /\ samples = 0
    /\ sample = 0
    /\ summary = -1
    /\ exitCode = -1
    /\ evalOrder = "lr"
    /\ nIter = 0
    /\ nBit = 0

-----------------------------------------------------------------------------
(* Inputs: encoded packets, as the transmitter frames them *)

MaxLen == 2
ByteVals == {45, 170, 65}          \* 0x2D, 0xAA (the sync word's bytes), 'A'

Payloads == UNION {[1..n -> ByteVals] : n \in 0..MaxLen}

\* every payload of one byte
OneBytePayloads == {<<b>> : b \in 0..255}

\* one payload of the greatest accepted length
LongPayload == [i \in 1..(MAX_PACKET_SIZE - 1) |-> (i * 7) % 256]

\* the bits of a byte sequence, most significant bit first
BytesBits(bs) ==
    [i \in 1..(8 * Len(bs)) |->
        (bs[((i - 1) \div 8) + 1] \div (2 ^ (7 - ((i - 1) % 8)))) % 2]

WordBytes(w) == <<w \div 256, w % 256>>

\* crc_xmodem_update folded over bs[lo..hi]; the range is halved and the left
\* half evaluated first, which keeps the evaluation shallow
RECURSIVE CrcRange(_, _, _, _)
CrcRange(crc, bs, lo, hi) ==
    IF lo > hi THEN crc
    ELSE IF lo = hi THEN crc_xmodem_update(crc, bs[lo])
    ELSE LET mid == (lo + hi) \div 2
             left == CrcRange(crc, bs, lo, mid)
         IN  IF left >= 0 THEN CrcRange(left, bs, mid + 1, hi) ELSE left

CrcFold(crc, bs) == CrcRange(crc, bs, 1, Len(bs))

\* the CRC bytes sent after length byte l and payload P
SentCrc(l, P) == WordBytes(65535 - CrcFold(CRC_START, <<l>> \o P))

\* sync word, length, payload, complemented CRC
Frame(P) == WordBytes(SYNC_WORD) \o <<Len(P)>> \o P \o SentCrc(Len(P), P)

Encode(P) == BytesBits(Frame(P))

NoScn == [kind |-> "none", P1 |-> <<>>, P2 |-> <<>>, G |-> <<>>, L |-> 0,
          sync |-> 0, args |-> <<>>]

-----------------------------------------------------------------------------
(* The bit-level driver: processBit is called on each bit of the input *)

FeedBit ==
    /\ bits # <<>>
    /\ ProcessBit(Head(bits))
    /\ bits' = Tail(bits)
    /\ UNCHANGED <<mainVars, verbose, scn, trace>>

BitInit ==
    /\ DecInit
    /\ MainIdle
    /\ verbose \in BOOLEAN

-----------------------------------------------------------------------------
(* One encoded packet *)

InitRoundTrip ==
    /\ BitInit
    /\ \E P \in Payloads \cup OneBytePayloads \cup {LongPayload} :
          /\ scn = [NoScn EXCEPT !.kind = "roundtrip", !.P1 = P]
          /\ bits = Encode(P)

SpecRoundTrip == InitRoundTrip /\ [][FeedBit]_vars

\* C1: fed the encoding of a payload P (sync word, length, P, complemented
\* CRC) from the initial state, the decoder emits nothing before the last bit
\* and exactly the one packet P by the end, and is then back in Searching.
C1_RoundTrip ==
    /\ bits # <<>> => packets = <<>>
    /\ bits = <<>> => packets = <<scn.P1>> /\ ~packetSync

C1_Witness ==
    /\ bits = <<>>
    /\ Len(scn.P1) = MAX_PACKET_SIZE - 1
    /\ packets = <<scn.P1>>
    /\ offset = len + 1

-----------------------------------------------------------------------------
(* Two encoded packets, one directly after the other *)

IsPrefix(s, t) == Len(s) <= Len(t) /\ \A i \in 1..Len(s) : s[i] = t[i]

\* the number of bits of Encode(P): sync word, length, payload, CRC
FrameBits(P) == 8 * (Len(P) + 5)

InitBackToBack ==
    /\ BitInit
    /\ \E P1 \in Payloads \cup {LongPayload}, P2 \in Payloads :
          /\ scn = [NoScn EXCEPT !.kind = "backtoback", !.P1 = P1, !.P2 = P2]
          /\ bits = Encode(P1) \o Encode(P2)

SpecBackToBack == InitBackToBack /\ [][FeedBit]_vars

\* C2: fed the encodings of P1 and P2 with nothing between them, the decoder
\* emits P1 at the last bit of the first encoding, P2 at the last bit of the
\* second, and nothing else: two packets, P1 then P2.
C2_BackToBack ==
    /\ Len(bits) > FrameBits(scn.P2) => packets = <<>>
    /\ (Len(bits) <= FrameBits(scn.P2) /\ bits # <<>>) => packets = <<scn.P1>>
    /\ bits = <<>> => packets = <<scn.P1, scn.P2>>

C2_Witness ==
    /\ bits = <<>>
    /\ scn.P1 # scn.P2
    /\ Len(scn.P1) > 0
    /\ Len(scn.P2) > 0
    /\ packets = <<scn.P1, scn.P2>>
    /\ ~packetSync

-----------------------------------------------------------------------------
(* Two encoded packets with other bits between them *)

MaxGarbage == 3

WordBits(w) == BytesBits(WordBytes(w))

SyncWords == {SYNC_WORD, 65535 - SYNC_WORD}

\* the 16 bits of s that end at position k, as a number
WindowAt(s, k) ==
    LET RECURSIVE Val(_, _)
        Val(i, acc) == IF i > k THEN acc ELSE Val(i + 1, 2 * acc + s[i])
    IN  Val(k - 15, 0)

\* s holds w as 16 consecutive bits
Contains(s, w) == \E k \in 16..Len(s) : WindowAt(s, k) = w

\* Every short bit sequence, the proper prefixes and suffixes of the two sync
\* words, and some longer runs (preamble, zeros, ones)
Garbage ==
    UNION {[1..n -> {0, 1}] : n \in 0..MaxGarbage}
    \cup {SubSeq(WordBits(w), 1, k) : w \in SyncWords, k \in 12..15}
    \cup {SubSeq(WordBits(w), 17 - k, 16) : w \in SyncWords, k \in 12..15}
    \cup {[i \in 1..24 |-> i % 2], [i \in 1..20 |-> 0], [i \in 1..20 |-> 1]}

GapPayloads == {<<>>, <<65>>, <<45, 170>>}

InitGarbage ==
    /\ BitInit
    /\ \E P1 \in GapPayloads, P2 \in GapPayloads, G \in Garbage :
          /\ scn = [NoScn EXCEPT !.kind = "garbage", !.P1 = P1, !.P2 = P2,
                                 !.G = G]
          /\ bits = Encode(P1) \o G \o Encode(P2)

SpecGarbage == InitGarbage /\ [][FeedBit]_vars

\* G holds neither sync word as 16 consecutive bits
NoSyncIn(G) == \A w \in SyncWords : ~Contains(G, w)

\* The register as the first packet left it (it still holds the matched sync
\* word), then G, then the first 15 bits of the next sync word: no 16 bits of
\* these past the first 16 are a sync word
CleanGap(G) ==
    LET s == WordBits(SYNC_WORD) \o G \o SubSeq(WordBits(SYNC_WORD), 1, 15)
    IN  \A k \in 17..Len(s) : ~SyncMatch(WindowAt(s, k))

BothDecoded ==
    /\ IsPrefix(packets, <<scn.P1, scn.P2>>)
    /\ Len(bits) > Len(scn.G) + FrameBits(scn.P2) => packets = <<>>
    /\ bits = <<>> => packets = <<scn.P1, scn.P2>>

\* C3 as stated: whenever G holds neither 0x2DAA nor 0xD255 as 16 consecutive
\* bits, packet 1, G, packet 2 decode to P1 then P2.
C3_AnyGarbage == BothDecoded \/ ~NoSyncIn(scn.G)

\* C3, amended: whenever no 16-bit window of (the sync word left in the
\* register by packet 1, then G, then the first 15 bits of packet 2's sync
\* word) past the first equals 0x2DAA or 0xD255, packet 1, G, packet 2
\* decode to P1 then P2, P2 exactly once.
C3_CleanGarbage == BothDecoded \/ ~CleanGap(scn.G)

C3_Witness ==
    /\ bits = <<>>
    /\ Len(scn.G) >= 16
    /\ CleanGap(scn.G)
    /\ Len(scn.P2) > 0
    /\ packets = <<scn.P1, scn.P2>>

-----------------------------------------------------------------------------
(* A sync word, a length byte of 254 or 255, then an encoded packet *)

\* before the sync word: nothing (the initial state), or a whole packet, which
\* leaves its length, offset, CRCs and sync word behind
LengthLeads == {<<>>, <<65, 45>>}

InitLength ==
    /\ BitInit
    /\ \E lead \in LengthLeads, w \in SyncWords,
          L \in {MAX_PACKET_SIZE - 1, MAX_PACKET_SIZE}, P2 \in Payloads :
          /\ scn = [NoScn EXCEPT !.kind = "length", !.sync = w, !.L = L,
                                 !.P1 = lead, !.P2 = P2]
          /\ bits = (IF lead = <<>> THEN <<>> ELSE Encode(lead))
                    \o WordBits(w) \o BytesBits(<<L>>) \o Encode(P2)

SpecLength == InitLength /\ [][FeedBit]_vars

\* the bits processed so far, counted from the first bit of the sync word
\* (negative while the packet before it is being read)
Consumed == 24 + FrameBits(scn.P2) - Len(bits)

\* what the packet before the sync word has emitted
Before == IF scn.P1 = <<>> THEN <<>> ELSE <<scn.P1>>

\* C4: after a sync lock, a length byte of 254 keeps the decoder Locked, with
\* the following bytes counted as payload; a length byte of 255 emits nothing
\* and returns the decoder to Searching at that byte's last bit, the sync word
\* that starts at the next bit is matched at its 16th bit and not before, and
\* the packet it starts is emitted.
C4_LengthBoundary ==
    /\ (Consumed >= 0 /\ Consumed < 16) => ~packetSync
    /\ (Consumed >= 16 /\ Consumed < 24) => packetSync /\ len = -1
    /\ (scn.L = MAX_PACKET_SIZE - 1 /\ Consumed >= 24) =>
          /\ packetSync
          /\ len = MAX_PACKET_SIZE - 1
          /\ offset = (Consumed - 24) \div 8
          /\ packets = Before
    /\ (scn.L = MAX_PACKET_SIZE /\ Consumed >= 24) =>
          /\ len = IF Consumed < 40 THEN MAX_PACKET_SIZE
                   ELSE IF Consumed < 48 THEN -1 ELSE Len(scn.P2)
          /\ Consumed < 40 => ~packetSync
          /\ Consumed = 40 => packetSync /\ sinceLock = 0
          /\ bits # <<>> => packets = Before
          /\ bits = <<>> => packets = Before \o <<scn.P2>> /\ ~packetSync

C4_Witness ==
    /\ scn.L = MAX_PACKET_SIZE
    /\ scn.sync = 65535 - SYNC_WORD
    /\ scn.P1 # <<>>
    /\ bits = <<>>
    /\ Len(scn.P2) > 0
    /\ packets = <<scn.P1, scn.P2>>

-----------------------------------------------------------------------------
(* One encoded packet with one payload bit flipped *)

FlipAt(s, k) == [s EXCEPT ![k] = 1 - s[k]]

\* which payload bits are flipped: all of a short payload, the first, one in
\* the middle and the last of the long one
FlipPositions(P) ==
    IF Len(P) <= MaxLen THEN 1..(8 * Len(P))
    ELSE {1, 4 * Len(P), 8 * Len(P)}

InitBitFlip ==
    /\ BitInit
    /\ \E P \in (Payloads \cup OneBytePayloads \cup {LongPayload}) \ {<<>>} :
          \E k \in FlipPositions(P) :
             /\ scn = [NoScn EXCEPT !.kind = "bitflip", !.P1 = P, !.L = k]
             /\ bits = FlipAt(Encode(P), 24 + k)

SpecBitFlip == InitBitFlip /\ [][FeedBit]_vars

\* C5: fed the encoding of a non-empty payload with one payload bit flipped
\* (sync word, length byte and CRC bytes as sent), the decoder emits no packet.
C5_CrcSensitivity == packets = <<>>

C5_Witness ==
    /\ bits = <<>>
    /\ ~packetSync
    /\ len = Len(scn.P1)
    /\ offset = len + 1
    /\ computedCrc # readCrc
    /\ Payload(buffer, len) # scn.P1
    /\ packets = <<>>

-----------------------------------------------------------------------------
(* Any lock: some bits, a sync word, a length byte, and bytes that may or may
   not carry the right CRC, then a few more bits *)

\* the length bytes tried: the short ones, the greatest accepted, the rejected
Lengths == (0..MaxLen) \cup {MAX_PACKET_SIZE - 1, MAX_PACKET_SIZE}

\* what follows length byte l: every choice of l + 2 bytes for a short l (the
\* CRC is then mostly wrong), and the payload with its right CRC; the long
\* payload with the right and with a wrong CRC; nothing, or one byte, after 255
Bodies(l) ==
    IF l <= MaxLen
    THEN [1..(l + 2) -> ByteVals] \cup {P \o SentCrc(l, P) : P \in [1..l -> ByteVals]}
    ELSE IF l = MAX_PACKET_SIZE - 1
    THEN {LongPayload \o SentCrc(l, LongPayload), LongPayload \o <<0, 0>>}
    ELSE {<<>>, <<65>>}

\* before the sync word: nothing, three bits, or a whole packet
Leads == {<<>>, <<1, 0, 1>>, Encode(<<65>>)}
Trail == <<0, 1, 1>>

InitLock ==
    /\ BitInit
    /\ \E lead \in Leads, w \in SyncWords, l \in Lengths :
          \E body \in Bodies(l) :
             /\ scn = [NoScn EXCEPT !.kind = "lock", !.sync = w, !.L = l,
                                    !.G = lead, !.P1 = body]
             /\ bits = lead \o WordBits(w) \o BytesBits(<<l>> \o body) \o Trail

Spec == InitLock /\ [][FeedBit]_vars

\* how many bits a lock lasts when its length byte is l
LockBits(l) == IF l > MAX_PACKET_SIZE - 1 THEN 8 ELSE 8 * (l + 3)

\* C10: a lock ends exactly 8 bits after the sync match when the length byte
\* is 255 and exactly 8*(L+3) bits after it when the length byte L is at most
\* 254, whatever the CRC; the decoder is never Locked for more than 8*257
\* bits, and a lock emits at most one packet.
C10_EveryLockEnds ==
    /\ packetSync => /\ sinceLock < 8 * (MAX_PACKET_SIZE + 2)
                     /\ len = -1 => sinceLock < 8
                     /\ len # -1 => sinceLock >= 8 /\ sinceLock < LockBits(len)
    /\ (~packetSync /\ len # -1) => sinceLock = LockBits(len)
    /\ Len(packets) - packetsAtLock <= 1

C10_Witness ==
    /\ ~packetSync
    /\ len = MAX_PACKET_SIZE - 1
    /\ sinceLock = 8 * (MAX_PACKET_SIZE + 2)
    /\ packets = <<>>
    /\ bits = <<>>

-----------------------------------------------------------------------------
(* main(): options and standard input *)

MaxBytes == 5
MaxCut == 4

OptS(v) == [opt |-> "s", arg |-> v]
OptV == [opt |-> "v", arg |-> 0]
OptH == [opt |-> "h", arg |-> 0]

\* values given with -s: around the lower limit, multiples of 2000 and others,
\* the default, values beyond 16 bits, a negative one
Rates == {0, 1999, 2000, 3999, 4000, 4001, 5000, 6000, 8000, 64000, 65535,
          65536, 66000, 69536, 70000, 128000, 250000, -61536}

OptionLists ==
    {<<OptS(v)>> : v \in Rates}
    \cup {<<>>, <<OptV>>, <<OptH>>, <<OptV, OptS(8000)>>,
          <<OptS(8000), OptS(3000)>>, <<OptS(4000), OptV>>}

\* the bytes of a sample stream that carries the bits bs at d samples per bit:
\* 0x1010 for a one, 0xEFEF for a zero
SampleBytes(bs, d) ==
    [i \in 1..(2 * d * Len(bs)) |->
        IF bs[((i - 1) \div (2 * d)) + 1] = 1 THEN 16 ELSE 239]

ShortInputs == UNION {[1..n -> {16, 239}] : n \in 0..MaxBytes}

\* an encoded packet at 2 samples per bit, with its last bytes missing
CutPacket(P, cut) ==
    LET all == SampleBytes(Encode(P), 2) IN SubSeq(all, 1, Len(all) - cut)

MainStart ==
    /\ DecInit
    /\ verbose = FALSE
    /\ sampleRate = DEFAULT_SAMPLE_RATE
    /\ threshold = 0
    /\ pc = "getopt"
    /\ pos = 0
    /\ eof = FALSE
    /\ downSamples = 0
    /\ skipSamples = 0
    /\ samples = 0
    /\ sample = 0
    /\ summary = -1
    /\ exitCode = -1
    /\ evalOrder \in {"lr", "rl"}
    /\ nIter = 0
    /\ nBit = 0
    /\ bits = <<>>

InitMain ==
    /\ MainStart
    /\ \/ \E a \in OptionLists, in \in {<<>>, <<16, 16, 239, 239>>} :
             /\ scn = [NoScn EXCEPT !.kind = "options", !.args = a]
             /\ argv = a
             /\ stdin = in
       \/ \E v \in {4000, 6000}, in \in ShortInputs :
             /\ scn = [NoScn EXCEPT !.kind = "stream", !.args = <<OptS(v)>>]
             /\ argv = <<OptS(v)>>
             /\ stdin = in
       \/ \E P \in {<<>>, <<65>>}, cut \in 0..MaxCut :
             /\ scn = [NoScn EXCEPT !.kind = "packet", !.args = <<OptS(4000)>>,
                                    !.P1 = P, !.L = cut]
             /\ argv = <<OptS(4000)>>
             /\ stdin = CutPacket(P, cut)

SpecMain == InitMain /\ [][MainNext]_vars

\* C6: with -s v, the program exits with code 1 before reading any sample
\* when v < 4000 or v is no multiple of 2000, and otherwise goes on to decode
\* with downsample factor v / 2000, also for v above 65535.
C6_SampleRateValidation ==
    (Len(scn.args) = 1 /\ scn.args[1].opt = "s" /\ argv = <<>>) =>
        LET v == scn.args[1].arg IN
        /\ (v < 2 * BIT_RATE \/ (v % BIT_RATE) # 0) =>
              pc = "exit" /\ exitCode = 1 /\ pos = 0 /\ nIter = 0
        /\ (v >= 2 * BIT_RATE /\ (v % BIT_RATE) = 0) =>
              /\ pc # "exit"
              /\ pc \in {"loop", "done"} => downSamples = v \div BIT_RATE

\* C7: on an input of 2n bytes every turn of the loop reads two bytes of the
\* input and makes the sample low byte | high byte << 8 of them, and at the
\* end the loop has run n times (one threshold update a turn) and passed
\* floor(n / D) bits to processBit.
C7_SampleAcquisition ==
    [][((pos + Len(stdin)) % 2 = 0 /\ pc = "loop") =>
          /\ nIter' = nIter + 1 =>
                /\ Len(stdin) >= 2
                /\ sample' = ToI16(stdin[1] + 256 * stdin[2])
          /\ pc' = "done" =>
                /\ nIter = pos \div 2
                /\ nBit = (pos \div 2) \div downSamples]_vars

\* C8: no step that ends with the end of input reached adds a packet.
C8_TruncatedInput == [][eof' => packets' = packets]_vars

\* C9: the sample count of the summary is the number of samples read.
C9_Summary == pc = "done" => summary = pos \div 2

-----------------------------------------------------------------------------
(* A lock that ends, and the bits after it *)

\* what follows the first sync word: a rejected length byte, a frame with the
\* right CRC, a frame with a wrong one
FirstLocks == {<<MAX_PACKET_SIZE>>,
               <<1, 65>> \o SentCrc(1, <<65>>),
               <<0, 45, 170>>}

\* the bits after the return to Searching: the last k bits of a sync word, or
\* any short sequence
Afters ==
    {SubSeq(WordBits(w), 17 - k, 16) : w \in SyncWords, k \in 1..16}
    \cup UNION {[1..n -> {0, 1}] : n \in 0..MaxGarbage}

\* after those: a length byte that ends a lock at once, and two more bits
ReTrail == BytesBits(<<MAX_PACKET_SIZE>>) \o <<1, 0>>

InitReentry ==
    /\ BitInit
    /\ \E w \in SyncWords, first \in FirstLocks, after \in Afters :
          /\ scn = [NoScn EXCEPT !.kind = "reentry", !.sync = w, !.P1 = first,
                                 !.G = after]
          /\ bits = WordBits(w) \o BytesBits(first) \o after \o ReTrail

SpecReentry == InitReentry /\ [][FeedBit]_vars

\* C11: after a return from Locked to Searching the decoder locks when, and
\* only when, a sync register cleared at that return would match: the bits
\* shifted in before the previous lock take no part in a later match.
C11_FreshRegister ==
    /\ ~packetSync => ~SyncMatch(freshReg)
    /\ (packetSync /\ sinceLock = 0) => SyncMatch(freshReg)

-----------------------------------------------------------------------------
(* What a lock emits *)

\* the 16-bit value of two bytes, high byte first
Word(hi, lo) == hi * 256 + lo

\* C12: a packet emitted by the current lock has a length L in 0..254, is
\* exactly the L bytes passed to processByte after the length byte, in order,
\* and the CRC (seed 0x1D0F) of the length byte and those L bytes equals
\* 0xFFFF minus the word made of the next two bytes, high byte first.
C12_EmittedPacket ==
    Len(packets) > packetsAtLock =>
        /\ Len(packets) = packetsAtLock + 1
        /\ Len(delivered) >= 3
        /\ LET L == delivered[1]
               P == packets[Len(packets)]
           IN  /\ L >= 0
               /\ L <= 254
               /\ Len(delivered) = L + 3
               /\ P = SubSeq(delivered, 2, L + 1)
               /\ CrcFold(7439, SubSeq(delivered, 1, L + 1))
                     = 65535 - Word(delivered[L + 2], delivered[L + 3])

\* a lock after an earlier packet has emitted the 254-byte payload
C12_Witness ==
    /\ Len(packets) = 2
    /\ packetsAtLock = 1
    /\ Len(packets[2]) = MAX_PACKET_SIZE - 1
    /\ packets[1] = <<65>>

\* C13: a bit processed while packetSync is set leaves syncBuffer as it is and
\* does not reset the packet state (the length stays set, the offset does not
\* go back, the lock's histories go on), even when the last 16 bits are a sync
\* word; packetSync is cleared only by a byte for which processByte returns
\* false: a length byte over 254, or the second CRC byte.
C13_NoSyncWhileLocked ==
    [][packetSync =>
          /\ syncBuffer' = syncBuffer
          /\ sinceLock' = sinceLock + 1
          /\ packetsAtLock' = packetsAtLock
          /\ len # -1 => len' = len
          /\ offset' >= offset
          /\ ~packetSync' =>
                /\ skipBit = 1
                /\ delivered' = Append(delivered, byte')
                /\ \/ len = -1 /\ byte' > 254
                   \/ len # -1 /\ offset = len + 1]_vars

\* Locked on the inverted word, and the last 16 bits received are 0x2DAA
C13_Witness ==
    /\ packetSync
    /\ syncBuffer = 65535 - SYNC_WORD
    /\ delivered = <<2, 45, 170>>
    /\ recent = <<1, 0, 1, 0, 1, 0, 1, 0>>
    /\ len = 2
    /\ offset = 2

\* C14: a bit processed while packetSync is clear that makes the register
\* 0x2DAA or 0xD255 sets packetSync, len = -1, offset = 0, computedCrc =
\* 0x1D0F, readCrc = 0 and skipBit = 8 in that step; one that makes it anything
\* else leaves packetSync clear and len, offset, computedCrc, readCrc and
\* buffer unchanged.
C14_ResetOnSync ==
    [][~packetSync =>
          IF syncBuffer' = 11690 \/ syncBuffer' = 53845
          THEN /\ packetSync'
               /\ len' = -1
               /\ offset' = 0
               /\ computedCrc' = 7439
               /\ readCrc' = 0
               /\ skipBit' = 8
          ELSE /\ ~packetSync'
               /\ UNCHANGED <<len, offset, computedCrc, readCrc, buffer>>]_vars

\* the inverted word has just been matched after a packet: the values that
\* packet left were reset
C14_Witness ==
    /\ packetSync
    /\ sinceLock = 0
    /\ syncBuffer = 65535 - SYNC_WORD
    /\ packets = <<<<65>>>>
    /\ buffer # <<>>
    /\ len = -1
    /\ offset = 0
    /\ readCrc = 0

\* C15: in every state offset <= len + 1 (len is -1 while unset) and
\* 0 <= offset <= 255; every step that stores into buffer stores the byte just
\* completed at an index i = offset with 0 <= i < len <= 254, so that no index
\* outside 0..253 is ever written.
C15_Bounds ==
    /\ [](/\ offset <= len + 1
          /\ offset >= 0
          /\ offset <= 255
          /\ DOMAIN buffer \subseteq 0..253)
    /\ [][(buffer' # buffer \/ (offset' # offset /\ offset < len)) =>
             /\ offset >= 0
             /\ offset < len
             /\ len <= 254
             /\ offset' = offset + 1
             /\ buffer' = (offset :> byte') @@ buffer]_vars

\* the 254-byte payload and its first CRC byte have been taken: the last
\* index written is 253 and offset is 255
C15_Witness ==
    /\ packetSync
    /\ len = 254
    /\ offset = 255
    /\ 253 \in DOMAIN buffer

-----------------------------------------------------------------------------
(* The running CRC of a lock *)

MidLen == 12

\* a payload of MidLen bytes, none of them zero
MidPayload == [i \in 1..MidLen |-> ((i * 37) % 251) + 1]

\* the locks of InitLock with a short length byte, and one of MidLen bytes
InitCrc ==
    /\ BitInit
    /\ \E lead \in Leads, w \in SyncWords, l \in (0..MaxLen) \cup {MidLen} :
          \E body \in IF l = MidLen
                      THEN {MidPayload \o SentCrc(l, MidPayload),
                            MidPayload \o <<0, 0>>}
                      ELSE Bodies(l) :
             /\ scn = [NoScn EXCEPT !.kind = "crc", !.sync = w, !.L = l,
                                    !.G = lead, !.P1 = body]
             /\ bits = lead \o WordBits(w) \o BytesBits(<<l>> \o body) \o Trail

SpecCrc == InitCrc /\ [][FeedBit]_vars

\* how many of the delivered bytes the running CRC covers: the length byte
\* once it is there, and the payload bytes received so far
Covered == IF len = -1 THEN 0 ELSE 1 + (IF offset < len THEN offset ELSE len)

\* C16: while packetSync is set, computedCrc is the CRC (polynomial 0x1021,
\* most significant bit first, 16 bits) folded from 0x1D0F over the length
\* byte, if received, and the first min(offset, len) payload bytes of this
\* lock; a step that takes one of the two CRC bytes leaves it unchanged.
C16_RunningCrc ==
    /\ [](packetSync =>
             /\ Covered <= Len(delivered)
             /\ computedCrc = CrcFold(7439, SubSeq(delivered, 1, Covered)))
    /\ [][(packetSync /\ len # -1 /\ offset >= len /\ delivered' # delivered)
             => computedCrc' = computedCrc]_vars

\* in a lock after a packet, the MidLen payload bytes and the first CRC byte
\* have been taken
C16_Witness ==
    /\ packetSync
    /\ len = MidLen
    /\ offset = MidLen + 1
    /\ Len(delivered) = MidLen + 2
    /\ packets = <<<<65>>>>
    /\ computedCrc = CrcFold(CRC_START, <<MidLen>> \o MidPayload)

-----------------------------------------------------------------------------
(* The same bits decoded twice: without -v, then with it *)

\* what the two runs are compared on
Obs == <<packetSync, syncBuffer, len, offset, computedCrc, readCrc, skipBit,
         packets>>

\* the inputs: a sync word, a length byte of 0, 1 or 255 and up to three more
\* bytes; and two packets one after the other
TwiceInputs ==
    {lead \o WordBits(w) \o BytesBits(<<l>> \o body) \o Trail :
        lead \in Leads, w \in SyncWords,
        l \in {0, 1, MAX_PACKET_SIZE}, body \in Bodies(1) \cup {<<>>}}
    \cup {Encode(P1) \o Encode(P2) : P1 \in Payloads, P2 \in {<<>>, <<65>>}}

InitTwice ==
    /\ BitInit
    /\ verbose = FALSE
    /\ \E in \in TwiceInputs :
          /\ scn = [NoScn EXCEPT !.kind = "twice", !.G = in]
          /\ bits = in

\* one bit of either run; the first run's states are kept
FeedTwice ==
    /\ bits # <<>>
    /\ ProcessBit(Head(bits))
    /\ bits' = Tail(bits)
    /\ trace' = IF verbose THEN trace ELSE Append(trace, Obs')
    /\ UNCHANGED <<mainVars, verbose, scn>>

\* the first run is over: the program is started again, verbose, on the same
\* bits
Rerun ==
    /\ ~verbose
    /\ bits = <<>>
    /\ verbose' = TRUE
    /\ bits' = scn.G
    /\ syncBuffer' = 0
    /\ byte' = 0
    /\ buffer' = <<>>
    /\ packetSync' = FALSE
    /\ len' = -1
    /\ offset' = 0
    /\ computedCrc' = CRC_START
    /\ readCrc' = 0
    /\ skipBit' = 8
    /\ packets' = <<>>
    /\ diag' = <<>>
    /\ sinceLock' = 0
    /\ packetsAtLock' = 0
    /\ delivered' = <<>>
    /\ recent' = <<>>
    /\ freshReg' = 0
    /\ UNCHANGED <<mainVars, scn, trace>>

SpecTwice == InitTwice /\ [][FeedTwice \/ Rerun]_vars

\* how many bits the current run has processed
Fed == Len(scn.G) - Len(bits)

\* C17: the run with verbose set goes through the same packetSync, syncBuffer,
\* len, offset, computedCrc, readCrc, skipBit and the same emitted packets,
\* bit for bit, as the run on the same bits with verbose clear.
C17_VerboseSameRun ==
    verbose =>
        /\ Len(trace) = Len(scn.G)
        /\ Fed = 0 => Obs = <<FALSE, 0, -1, 0, 7439, 0, 8, <<>>>>
        /\ Fed > 0 => Obs = trace[Fed]

\* the verbose run is over: it has printed diagnostics, rejected a CRC and
\* emitted a packet
C17_Witness ==
    /\ verbose
    /\ bits = <<>>
    /\ Len(packets) = 1
    /\ \E i \in 1..Len(diag) : diag[i] = "CRC mismatch"
    /\ \E i \in 1..Len(diag) : diag[i] = "Parsing"

-----------------------------------------------------------------------------
(* main(): the slicer *)

MaxSamples == 3
RampLen == 150

\* sample values: the two ends of the range, zero and its neighbours
SampleVals == {-32768, -1, 0, 1, 32767}

\* the two bytes of a sample, low byte first
SampleLE(v) == LET u == v % 65536 IN <<u % 256, u \div 256>>

\* the bytes of a sequence of samples
SamplesBytes(vs) ==
    [i \in 1..(2 * Len(vs)) |-> SampleLE(vs[(i + 1) \div 2])[2 - (i % 2)]]

ShortStreams == UNION {[1..n -> SampleVals] : n \in 0..MaxSamples}

\* n samples that step through 32767, -32768, 0, 4112, -4113 in strides of k
Pattern(n, k) ==
    [i \in 1..n |-> <<32767, -32768, 0, 4112, -4113>>[((i * k) % 5) + 1]]

\* RampLen samples of v, then two of w
Ramp(v, w) == [i \in 1..(RampLen + 2) |-> IF i <= RampLen THEN v ELSE w]

\* the downsample factors tried: the least, the next, the greatest (the default)
Factors == {2, 3, 32}

InitSlicer ==
    /\ MainStart
    /\ \E d \in Factors :
          /\ argv = <<OptS(d * BIT_RATE)>>
          /\ \E vs \in ShortStreams
                       \cup {Pattern(3 * d + 1, k) : k \in 1..3}
                       \cup {[i \in 1..(2 * d + 1) |-> 0]}
                       \cup (IF d = 2
                             THEN {Ramp(32767, -32768), Ramp(-32768, 32767)}
                             ELSE {}) :
                /\ scn = [NoScn EXCEPT !.kind = "slicer", !.L = d, !.G = vs,
                                       !.args = <<OptS(d * BIT_RATE)>>]
                /\ stdin = IF d = 2 /\ vs = <<>>
                           THEN SampleBytes(Encode(<<65>>), 2)
                           ELSE SamplesBytes(vs)

SpecSlicer == InitSlicer /\ [][MainNext]_vars

\* C18: with downsample factor D, processBit is called on the samples numbered
\* D, 2D, 3D, ... and on no other; between samples the countdown skipSamples
\* is within 1..D; the bit passed is 1 when the sample is greater than the
\* threshold as updated with that sample, and 0 otherwise, also when they are
\* equal.
C18_BitCadence ==
    /\ [](pc \in {"loop", "done"} =>
             /\ nBit = nIter \div downSamples
             /\ skipSamples >= 1
             /\ skipSamples <= downSamples
             /\ skipSamples = downSamples - (nIter % downSamples))
    /\ [][nIter' # nIter =>
             /\ nIter' = nIter + 1
             /\ IF (nIter' % downSamples) = 0
                THEN /\ nBit' = nBit + 1
                     /\ recent' # <<>>
                     /\ recent'[Len(recent')] =
                           (IF sample' > threshold' THEN 1 ELSE 0)
                ELSE /\ nBit' = nBit
                     /\ recent' = recent
                     /\ UNCHANGED <<syncBuffer, byte, sinceLock>>]_vars

\* at D = 32 the second bit has been sliced, from a sample equal to the
\* threshold
C18_Witness ==
    /\ downSamples = 32
    /\ nIter = 64
    /\ nBit = 2
    /\ sample = threshold
    /\ recent = <<0, 0>>

Min(a, b) == IF a <= b THEN a ELSE b
Max(a, b) == IF a >= b THEN a ELSE b

\* C19: on every sample s, with D in 2..32, the new threshold is the quotient
\* of s + (8D-1)*T by 8D truncated toward zero, lies between min(s, T) and
\* max(s, T) and so within -32768..32767, and is computed on every sample,
\* whether or not a bit is sliced from it.
C19_ThresholdUpdate ==
    [][(/\ nIter' # nIter
        /\ downSamples \in 2..32
        /\ sample' \in -32768..32767) =>
          LET s == sample'
              T == threshold
              d == 8 * downSamples
              n == s + (d - 1) * T
              q == threshold'
          IN  /\ n >= 0 => d * q <= n /\ n < d * (q + 1)
              /\ n < 0 => d * q >= n /\ n > d * (q - 1)
              /\ Min(s, T) <= q
              /\ q <= Max(s, T)
              /\ q >= -32768
              /\ q <= 32767]_vars

\* after RampLen samples of 32767 the threshold is near the top of its range;
\* the sample -32768 then pulls it down, and no bit is sliced from that sample
C19_Witness ==
    /\ downSamples = 2
    /\ nIter > RampLen
    /\ (nIter % downSamples) # 0
    /\ sample = -32768
    /\ threshold > 20000
    /\ threshold < 32767

-----------------------------------------------------------------------------
(* The bytes of a lock *)

\* the byte made of eight bits, the first one the most significant
ByteOf(r) ==
    128 * r[1] + 64 * r[2] + 32 * r[3] + 16 * r[4]
    + 8 * r[5] + 4 * r[6] + 2 * r[7] + r[8]

\* C20: while packetSync is set a byte is passed to processByte on the 8th,
\* 16th, 24th, ... bit after the one that completed the sync word and on no
\* other; it is made of the last eight bits, the first as its most significant
\* one, whatever byte held before; skipBit is within 1..8 between bits.
C20_ByteFraming ==
    /\ [](/\ skipBit >= 1
          /\ skipBit <= 8
          /\ packetSync => skipBit = 8 - (sinceLock % 8)
          /\ Len(delivered) = sinceLock \div 8)
    /\ [][packetSync =>
             IF (sinceLock' % 8) = 0
             THEN /\ Len(recent') = 8
                  /\ delivered' = Append(delivered, ByteOf(recent'))
             ELSE delivered' = delivered]_vars

\* the first byte of a lock that follows a packet: byte held that packet's
\* last CRC byte when the sync word was matched
C20_Witness ==
    /\ packetSync
    /\ sinceLock = 8
    /\ packets = <<<<65>>>>
    /\ delivered = <<2>>
    /\ byte = 2
    /\ recent = <<0, 0, 0, 0, 0, 0, 1, 0>>

=============================================================================
